---- MODULE Spec2Model ----
(***************************************************************************)
(* A model of the support-ticket backend: the tickets table (models.py),   *)
(* the request handlers of TicketViewSet (views.py), the serializers       *)
(* (serializers.py) and the AI integration layer (services/llm.py).        *)
(*                                                                         *)
(* Text (titles, descriptions, environment values) is a sequence of        *)
(* characters, each a string: itself, or its name ("NUL", "QUOTE").        *)
(* Enumerated values are TLA+ strings.                                     *)
(***************************************************************************)
EXTENDS Integers, Sequences, FiniteSets, TLC

VARIABLES tickets, clock, env, request, response, scoreCalls, attempts, lastScore,
          inflight

vars == <<tickets, clock, env, request, response, scoreCalls, attempts, lastScore,
          inflight>>

-----------------------------------------------------------------------------
(* models.py: the enumerations of Ticket *)

Category == {"billing", "technical", "account", "general"}

Priority == {"low", "medium", "high", "critical"}

Status == {"open", "in_progress", "resolved", "closed"}

Sentiment == {"calm", "neutral", "frustrated", "angry"}

TITLE_MAX_LENGTH == 200

URGENCY_MIN == 0

URGENCY_MAX == 100

-----------------------------------------------------------------------------
(* services/llm.py: constants *)

\* a default classification of another priority
DEFAULT_CLASSIFICATION_Medium ==
    [suggested_category |-> "general", suggested_priority |-> "medium"]

DEFAULT_CLASSIFICATION ==
    [suggested_category |-> "general", suggested_priority |-> "low"]

DEFAULT_URGENCY_SCORE == 50

DEFAULT_SENTIMENT_URGENCY ==
    [sentiment |-> "neutral", urgency_score |-> DEFAULT_URGENCY_SCORE]

DEFAULT_TITLE ==
    <<"S", "u", "p", "p", "o", "r", "t", " ", "r", "e", "q", "u", "e", "s", "t">>

PREFERRED_TITLE_MAX_LENGTH == 60

HARD_TITLE_MAX_LENGTH == 120

\* a default of two retries
DEFAULT_OPENAI_MAX_RETRIES_Two == 1 + 1

DEFAULT_OPENAI_MAX_RETRIES == 0

-----------------------------------------------------------------------------
(* Python string primitives, on sequences of characters *)

Whitespace == {" ", "\t", "\n"}

Min(S) == CHOOSE x \in S : \A y \in S : x <= y

\* s.lstrip(chars) / s.rstrip(chars) / s.strip(chars)
LStrip(s, chars) ==
    LET lead == CHOOSE k \in 0..Len(s) :
                    /\ k = Len(s) \/ s[k + 1] \notin chars
                    /\ \A j \in 1..k : s[j] \in chars
    IN  SubSeq(s, lead + 1, Len(s))

RStrip(s, chars) ==
    LET trail == CHOOSE k \in 0..Len(s) :
                    /\ k = Len(s) \/ s[Len(s) - k] \notin chars
                    /\ \A j \in (Len(s) - k + 1)..Len(s) : s[j] \in chars
    IN  SubSeq(s, 1, Len(s) - trail)

Strip(s, chars) == RStrip(LStrip(s, chars), chars)

\* " ".join(s.split()): whitespace runs become one space, the ends are trimmed
SplitJoin(s) ==
    LET Kept(m) == m.kept
        Marked(last) ==
            [i \in 1..Len(s) |->
                [c    |-> IF s[i] \in Whitespace THEN " " ELSE s[i],
                 kept |-> \/ s[i] \notin Whitespace
                          \/ i > 1 /\ s[i - 1] \notin Whitespace /\ i < last]]
        Chars(marked) == [k \in 1..Len(marked) |-> marked[k].c]
    IN  Chars(SelectSeq(Marked(Len(RStrip(s, Whitespace))), Kept))

\* s[:n]
Prefix(s, n) == IF Len(s) > n THEN SubSeq(s, 1, n) ELSE s

\* re.split(r"(?<=[.!?])\s+", s, maxsplit=1)[0]
FirstSentence(s) ==
    LET cut == {i \in 2..Len(s) : s[i] \in Whitespace /\ s[i - 1] \in {".", "!", "?"}}
    IN  IF cut = {} THEN s ELSE SubSeq(s, 1, Min(cut) - 1)

\* the characters of " \"'`", by name
QuoteChars == {" ", "QUOTE", "APOSTROPHE", "BACKTICK"}

TrailChars == {" ", ".", "!", "?", ";", ":"}

-----------------------------------------------------------------------------
(* JSON values as the service can return them.  A scalar is a record       *)
(* [t, s, cs, n, f]: t is the Python type, s an enumerated-style string,   *)
(* cs a text, n an integer (or the whole part of a float) and f the tenths *)
(* of a float.  A payload is [t, fields]: fields maps the keys of a dict   *)
(* to scalars.                                                             *)

JScalar(t, s, cs, n, f) == [t |-> t, s |-> s, cs |-> cs, n |-> n, f |-> f]

JNone == JScalar("null", "", <<>>, 0, 0)

JStr(s) == JScalar("str", s, <<>>, 0, 0)

JText(cs) == JScalar("str", "", cs, 0, 0)

JInt(n) == JScalar("int", "", <<>>, n, 0)

JFloat(n, f) == JScalar("float", "", <<>>, n, f)

JBool(b) == JScalar("bool", "", <<>>, IF b THEN 1 ELSE 0, 0)

JList == JScalar("list", "", <<>>, 0, 0)

NoFields == [k \in {} |-> JNone]

JDict(fields) == [t |-> "dict", fields |-> fields]

JOther(t) == [t |-> t, fields |-> NoFields]

\* payload.get(key)
Get(payload, key) ==
    IF key \in DOMAIN payload.fields THEN payload.fields[key] ELSE JNone

\* x in set(values) raises TypeError for an unhashable x
Unhashable(x) == x.t \in {"list", "dict"}

InValues(x, values) == x.t = "str" /\ x.cs = <<>> /\ x.s \in values

-----------------------------------------------------------------------------
(* Results of Python calls: a value, None, or a raised exception *)

None == [kind |-> "none"]

Raised == [kind |-> "raise"]

Value(v) == [kind |-> "value", val |-> v]

-----------------------------------------------------------------------------
(* services/llm.py: environment and client *)

Digits == {"0", "1", "2", "3", "4", "5", "6", "7", "8", "9"}

DigitValue(c) ==
    CASE c = "0" -> 0 [] c = "1" -> 1 [] c = "2" -> 2 [] c = "3" -> 3
      [] c = "4" -> 4 [] c = "5" -> 5 [] c = "6" -> 6 [] c = "7" -> 7
      [] c = "8" -> 8 [] c = "9" -> 9

\* int(raw): an optional sign and decimal digits; anything else is ValueError
ParseInt(raw) ==
    LET signed == raw # <<>> /\ raw[1] \in {"-", "+"}
        body   == IF signed THEN Tail(raw) ELSE raw
        val[i \in 0..Len(body)] ==
            IF i = 0 THEN 0 ELSE 10 * val[i - 1] + DigitValue(body[i])
    IN  IF body = <<>> \/ \E i \in 1..Len(body) : body[i] \notin Digits
        THEN Raised
        ELSE Value(IF signed /\ raw[1] = "-" THEN 0 - val[Len(body)] ELSE val[Len(body)])

\* os.getenv(name, "")
Getenv(e, name) == IF name \in DOMAIN e THEN e[name] ELSE <<>>

_env_int(e, name, default, min_value) ==
    LET Checked(raw_value, parsed) ==
            IF raw_value = <<>> THEN default
            ELSE IF parsed.kind = "raise" THEN default
            ELSE IF parsed.val < min_value THEN default
            ELSE parsed.val
        Parsed(raw_value) == Checked(raw_value, ParseInt(raw_value))
    IN  Parsed(Strip(Getenv(e, name), Whitespace))

\* None without an API key, else the client with its retry budget
_get_client(e) ==
    LET api_key == Strip(Getenv(e, "OPENAI_API_KEY"), Whitespace)
    IN  IF api_key = <<>> THEN None
        ELSE Value([max_retries |->
                      _env_int(e, "OPENAI_MAX_RETRIES", DEFAULT_OPENAI_MAX_RETRIES, 0)])

\* client.chat.completions.create against a service that fails svc.fails
\* times with a retryable error (timeout, connection, 429, 5xx) and then
\* answers svc.final: the client retries a retryable error max_retries times.
ChatCompletionsCreate(client, svc) ==
    IF svc.fails > client.max_retries
    THEN [attempts |-> client.max_retries + 1, final |-> "error"]
    ELSE [attempts |-> svc.fails + 1, final |-> svc.final]

\* what _request_structured_json makes of a completion
ParsedCompletion(completion, svc) ==
    [attempts |-> completion.attempts,
     result |->
        CASE completion.final = "error"      -> Raised
          [] completion.final = "no_choices" -> None
          [] completion.final = "no_content" -> None
          [] completion.final = "bad_json"   -> Raised
          [] completion.final = "json"       -> Value(svc.payload)]

\* [result, attempts]
_request_structured_json(e, svc) ==
    LET Requested(client) ==
            IF client = None THEN [result |-> None, attempts |-> 0]
            ELSE ParsedCompletion(ChatCompletionsCreate(client.val, svc), svc)
    IN  Requested(_get_client(e))

-----------------------------------------------------------------------------
(* services/llm.py: titles *)

\* candidate[:n].rstrip() when candidate is longer than n
Truncated(candidate, n) ==
    IF Len(candidate) > n THEN RStrip(Prefix(candidate, n), Whitespace) ELSE candidate

\* value or default
OrDefault(value, default) == IF value = <<>> THEN default ELSE value

_fallback_title(description) ==
    LET Candidate(first_sentence) ==
            RStrip(Strip(first_sentence, QuoteChars), TrailChars)
        Cut(candidate) ==
            IF candidate = <<>> THEN DEFAULT_TITLE
            ELSE OrDefault(Truncated(candidate, PREFERRED_TITLE_MAX_LENGTH), DEFAULT_TITLE)
        Sentence(compact) ==
            IF compact = <<>> THEN DEFAULT_TITLE
            ELSE Cut(Candidate(OrDefault(Strip(FirstSentence(compact), Whitespace),
                                         compact)))
    IN  Sentence(Strip(SplitJoin(description), Whitespace))

\* None, or Value(title)
_normalize_title(raw_title) ==
    LET Wrap(truncated) == IF truncated = <<>> THEN None ELSE Value(truncated)
        Cut(title) ==
            IF title = <<>> THEN None
            ELSE Wrap(Truncated(title, HARD_TITLE_MAX_LENGTH))
        Unquoted(compact) ==
            IF compact = <<>> THEN None
            ELSE Cut(RStrip(Strip(compact, QuoteChars), TrailChars))
    IN  IF raw_title.t # "str" THEN None
        ELSE Unquoted(Strip(SplitJoin(raw_title.cs), Whitespace))

-----------------------------------------------------------------------------
(* services/llm.py: payload validation *)

\* the validation without the check of the priority
_validate_classification_payload_WithoutPriority(payload) ==
    LET category == Get(payload, "suggested_category")
        priority == Get(payload, "suggested_priority")
    IN  IF payload.t # "dict" THEN None
        ELSE IF Unhashable(category) THEN Raised
        ELSE IF ~InValues(category, Category) THEN None
        ELSE Value([suggested_category |-> category.s,
                    suggested_priority |-> priority.s])

_validate_classification_payload(payload) ==
    LET category == Get(payload, "suggested_category")
        priority == Get(payload, "suggested_priority")
    IN  IF payload.t # "dict" THEN None
        ELSE IF Unhashable(category) THEN Raised
        ELSE IF ~InValues(category, Category) THEN None
        ELSE IF Unhashable(priority) THEN Raised
        ELSE IF ~InValues(priority, Priority) THEN None
        ELSE Value([suggested_category |-> category.s,
                    suggested_priority |-> priority.s])

\* the validation without the check of the score's range
_validate_sentiment_urgency_payload_WithoutRange(payload) ==
    LET sentiment     == Get(payload, "sentiment")
        raw_score     == Get(payload, "urgency_score")
        urgency_score == IF raw_score.t = "float" /\ raw_score.f = 0
                         THEN JInt(raw_score.n)
                         ELSE raw_score
    IN  IF payload.t # "dict" THEN None
        ELSE IF Unhashable(sentiment) THEN Raised
        ELSE IF ~InValues(sentiment, Sentiment) THEN None
        ELSE IF raw_score.t = "bool" THEN None
        ELSE IF urgency_score.t # "int" THEN None
        ELSE Value([sentiment |-> sentiment.s, urgency_score |-> urgency_score.n])

_validate_sentiment_urgency_payload(payload) ==
    LET sentiment     == Get(payload, "sentiment")
        raw_score     == Get(payload, "urgency_score")
        urgency_score == IF raw_score.t = "float" /\ raw_score.f = 0
                         THEN JInt(raw_score.n)
                         ELSE raw_score
    IN  IF payload.t # "dict" THEN None
        ELSE IF Unhashable(sentiment) THEN Raised
        ELSE IF ~InValues(sentiment, Sentiment) THEN None
        ELSE IF raw_score.t = "bool" THEN None
        ELSE IF urgency_score.t # "int" THEN None
        ELSE IF urgency_score.n < URGENCY_MIN \/ urgency_score.n > URGENCY_MAX THEN None
        ELSE Value([sentiment |-> sentiment.s, urgency_score |-> urgency_score.n])

-----------------------------------------------------------------------------
(* services/llm.py: the three AI operations.  Each yields [value, attempts] *)

\* validated or default, with the attempts the request took
OrFallback(req, validated, default) ==
    [attempts |-> req.attempts,
     value |-> IF validated.kind = "value" THEN validated.val ELSE default]

classify_ticket(e, description, svc) ==
    LET Validated(req) ==
            OrFallback(req,
                       IF req.result.kind = "value"
                       THEN _validate_classification_payload(req.result.val)
                       ELSE req.result,
                       DEFAULT_CLASSIFICATION)
    IN  Validated(_request_structured_json(e, svc))

suggest_title(e, description, svc) ==
    LET Normalized(req) ==
            OrFallback(req,
                       IF req.result.kind # "value" THEN None
                       ELSE IF req.result.val.t # "dict" THEN None
                       ELSE _normalize_title(Get(req.result.val, "suggested_title")),
                       _fallback_title(description))
    IN  Normalized(_request_structured_json(e, svc))

\* the scoring that trusts a dict from the service without validating it
score_sentiment_urgency_Unvalidated(e, title, description, svc) ==
    LET Trusted(req) ==
            OrFallback(req,
                       IF req.result.kind = "value" /\ req.result.val.t = "dict"
                       THEN Value([sentiment |-> Get(req.result.val, "sentiment").s,
                                   urgency_score |->
                                       Get(req.result.val, "urgency_score").n])
                       ELSE req.result,
                       DEFAULT_SENTIMENT_URGENCY)
    IN  Trusted(_request_structured_json(e, svc))

score_sentiment_urgency(e, title, description, svc) ==
    LET Validated(req) ==
            OrFallback(req,
                       IF req.result.kind = "value"
                       THEN _validate_sentiment_urgency_payload(req.result.val)
                       ELSE req.result,
                       DEFAULT_SENTIMENT_URGENCY)
    IN  Validated(_request_structured_json(e, svc))

-----------------------------------------------------------------------------
(* Optional values: a field a request carries or not, a missing dict key *)

Absent == {}

Some(x) == {x}

Has(o) == o # {}

The(o) == CHOOSE x \in o : TRUE

OrElse(o, default) == IF Has(o) THEN The(o) ELSE default

\* a request body or query string: every key it can carry, present or not
Data(title, description, category, priority, status, sentiment, urgency_score, search) ==
    [title |-> title, description |-> description, category |-> category,
     priority |-> priority, status |-> status, sentiment |-> sentiment,
     urgency_score |-> urgency_score, search |-> search]

\* a body of the writable fields
Body(title, description, category, priority, status) ==
    Data(title, description, category, priority, status, Absent, Absent, Absent)

\* a query string of the list endpoint
Query(category, priority, status, search) ==
    Data(Absent, Absent, category, priority, status, Absent, Absent, search)

NoData == Body(Absent, Absent, Absent, Absent, Absent)

-----------------------------------------------------------------------------
(* serializers.py *)

Invalid == [ok |-> FALSE]

Valid(v) == [ok |-> TRUE, val |-> v]

\* serializers.CharField(allow_blank=False, trim_whitespace=True, max_length=...)
\* on a submitted text; max_length is Absent or Some(n)
CharField(value, max_length) ==
    LET Checked(trimmed) ==
            IF trimmed = <<>> THEN Invalid
            ELSE IF Has(max_length) /\ Len(trimmed) > The(max_length) THEN Invalid
            ELSE IF \E i \in 1..Len(trimmed) : trimmed[i] = "NUL" THEN Invalid
            ELSE Valid(trimmed)
    IN  Checked(Strip(value, Whitespace))

\* serializers.ChoiceField(choices=...)
ChoiceField(value, choices) ==
    IF value \in choices THEN Valid(value) ELSE Invalid

validate_title(value) ==
    LET Checked(cleaned) ==
            IF cleaned = <<>> THEN Invalid
            ELSE IF Len(cleaned) > TITLE_MAX_LENGTH THEN Invalid
            ELSE Valid(cleaned)
    IN  Checked(Strip(value, Whitespace))

validate_description(value) ==
    LET Checked(cleaned) == IF cleaned = <<>> THEN Invalid ELSE Valid(cleaned)
    IN  Checked(Strip(value, Whitespace))

\* one writable field of TicketSerializer: Absent, or Some(Valid/Invalid)
TitleField(data) ==
    LET Validated(f) == IF f.ok THEN validate_title(f.val) ELSE Invalid
    IN  IF ~Has(data.title) THEN Absent
        ELSE Some(Validated(CharField(The(data.title), Some(TITLE_MAX_LENGTH))))

DescriptionField(data) ==
    LET Validated(f) == IF f.ok THEN validate_description(f.val) ELSE Invalid
    IN  IF ~Has(data.description) THEN Absent
        ELSE Some(Validated(CharField(The(data.description), Absent)))

EnumField(value, choices) ==
    IF ~Has(value) THEN Absent ELSE Some(ChoiceField(The(value), choices))

\* a submitted field that did not pass
Failed(f) == Has(f) /\ ~The(f).ok

\* the cleaned value of a field that passed
Clean(f) == IF Has(f) THEN Some(The(f).val) ELSE Absent

\* TicketSerializer(data=data, partial=partial).is_valid(): the validated
\* data, or Invalid.  title, description, category and priority are required
\* unless partial; status has a model default; id, created_at, sentiment and
\* urgency_score are read-only.
\* Meta.read_only_fields without the two scored fields
read_only_fields_WithoutScores == {"id", "created_at"}

read_only_fields == {"id", "created_at", "sentiment", "urgency_score"}

\* a submitted field as the serializer takes it: dropped when read-only
Writable(data, field) == IF field \in read_only_fields THEN Absent ELSE data[field]

TicketSerializer(data, partial) ==
    LET Fields(title, description, category, priority, status) ==
            IF \/ Failed(title) \/ Failed(description) \/ Failed(category)
               \/ Failed(priority) \/ Failed(status)
            THEN Invalid
            ELSE IF /\ ~partial
                    /\ ~(Has(title) /\ Has(description) /\ Has(category) /\ Has(priority))
            THEN Invalid
            ELSE Valid(Data(Clean(title), Clean(description), Clean(category),
                            Clean(priority), Clean(status),
                            Writable(data, "sentiment"),
                            Writable(data, "urgency_score"), Absent))
    IN  Fields(TitleField(data), DescriptionField(data),
               EnumField(data.category, Category),
               EnumField(data.priority, Priority),
               EnumField(data.status, Status))

\* TicketClassifyRequestSerializer / TicketSuggestTitleRequestSerializer
DescriptionRequestSerializer(data) ==
    IF ~Has(data.description) THEN Invalid
    ELSE CharField(The(data.description), Absent)

TicketClassifyResponseSerializer(classification) ==
    IF /\ ChoiceField(classification.suggested_category, Category).ok
       /\ ChoiceField(classification.suggested_priority, Priority).ok
    THEN Valid(classification)
    ELSE Invalid

\* max_length of TicketSuggestTitleResponseSerializer.suggested_title
SUGGESTED_TITLE_MAX_LENGTH == 120

TicketSuggestTitleResponseSerializer(suggested_title) ==
    CharField(suggested_title, Some(SUGGESTED_TITLE_MAX_LENGTH))

-----------------------------------------------------------------------------
(* models.py: the table *)

Row(id, title, description, category, priority, status, sentiment, urgency_score, created_at) ==
    [id |-> id, title |-> title, description |-> description,
     category |-> category, priority |-> priority, status |-> status,
     sentiment |-> sentiment, urgency_score |-> urgency_score,
     created_at |-> created_at]

\* Ticket.Meta.constraints without ticket_urgency_range
CheckConstraints_WithoutRange(row) ==
    /\ row.category \in {"billing", "technical", "account", "general"}
    /\ row.priority \in {"low", "medium", "high", "critical"}
    /\ row.status \in {"open", "in_progress", "resolved", "closed"}
    /\ row.sentiment \in {"calm", "neutral", "frustrated", "angry"}

\* Ticket.Meta.constraints
CheckConstraints(row) ==
    /\ row.category \in {"billing", "technical", "account", "general"}
    /\ row.priority \in {"low", "medium", "high", "critical"}
    /\ row.status \in {"open", "in_progress", "resolved", "closed"}
    /\ row.sentiment \in {"calm", "neutral", "frustrated", "angry"}
    /\ row.urgency_score >= 0 /\ row.urgency_score <= 100

DEFAULT_STATUS == "open"

-----------------------------------------------------------------------------
(* Bounds of the model *)

\* rows the table may hold
MaxTickets == 1

\* rows the table may hold when it is queried
MaxRows == 2

\* clock ticks in a day; a request may arrive one tick or one day later
TicksPerDay == 4

-----------------------------------------------------------------------------
(* views.py: requests and responses *)

NoSvc == [fails |-> 0, final |-> "error", payload |-> JOther("null")]

Request(op, id, data, svc) == [op |-> op, id |-> id, data |-> data, svc |-> svc]

Response(status, error, data) == [status |-> status, error |-> error, data |-> data]

HTTP_200_OK == 200

HTTP_201_CREATED == 201

HTTP_400_BAD_REQUEST == 400

HTTP_404_NOT_FOUND == 404

HTTP_405_METHOD_NOT_ALLOWED == 405

HTTP_204_NO_CONTENT == 204

HTTP_500_INTERNAL_SERVER_ERROR == 500

ScoreCall(title, description, result) ==
    [title |-> title, description |-> description, result |-> result]

Ids == 1..Len(tickets)

\* the day of a timestamp (TruncDate)
Day(t) == t \div TicksPerDay

\* instance.save(): replaces the row of the same id
SaveRow(row) == [tickets EXCEPT ![row.id] = row]

\* what a handler did: its response, the table it leaves, the calls it made
\* to score_sentiment_urgency and its attempts to reach the service
Outcome(resp, table, calls, tries) ==
    [response |-> resp, tickets |-> table, scoreCalls |-> calls, attempts |-> tries]

Rejected(status, error) == Outcome(Response(status, error, <<>>), tickets, <<>>, 0)

\* no scoring call made for any ticket yet
NoScores == [i \in {} |-> 0]

\* the latest scoring call made for each ticket, after a request: the call
\* of a PATCH is made for the ticket of its id, the call of a create for the
\* ticket it goes on to insert
LastScored(req, out) ==
    LET Noted(id) ==
            [i \in DOMAIN lastScore \cup {id} |->
                IF i = id THEN out.scoreCalls[Len(out.scoreCalls)] ELSE lastScore[i]]
    IN  IF out.scoreCalls = <<>> THEN lastScore
        ELSE IF req.op = "patch" THEN Noted(req.id)
        ELSE IF Len(out.tickets) > Len(tickets) THEN Noted(Len(out.tickets))
        ELSE lastScore

\* no request is between reading its ticket and saving it
NoneInFlight == [r \in {} |-> 0]

\* a handler's outcome becomes the next state of the table and of the
\* exchange
Answer(req, out, now) ==
    /\ request' = req
    /\ response' = out.response
    /\ tickets' = out.tickets
    /\ scoreCalls' = out.scoreCalls
    /\ attempts' = out.attempts
    /\ lastScore' = LastScored(req, out)
    /\ clock' = IF Len(out.tickets) > Len(tickets) THEN now ELSE clock
    /\ UNCHANGED env

\* a request handled from start to end with no other request in between
Handle(req, out, now) == Answer(req, out, now) /\ UNCHANGED inflight

\* TicketViewSet.create -> perform_create -> serializer.save(**ai_signals)
perform_create(data, svc, now) ==
    LET Inserted(row, calls, tries) ==
            IF ~CheckConstraints(row)
            THEN Outcome(Response(HTTP_500_INTERNAL_SERVER_ERROR, "IntegrityError", <<>>),
                         tickets, calls, tries)
            ELSE Outcome(Response(HTTP_201_CREATED, "", row),
                         Append(tickets, row), calls, tries)
        Scored(vd, ai) ==
            Inserted(Row(Len(tickets) + 1, The(vd.title), The(vd.description),
                         The(vd.category), The(vd.priority),
                         OrElse(vd.status, DEFAULT_STATUS),
                         ai.value.sentiment, ai.value.urgency_score, now),
                     <<ScoreCall(The(vd.title), The(vd.description), ai.value)>>,
                     ai.attempts)
        Validated(vd) ==
            Scored(vd, score_sentiment_urgency(env, The(vd.title),
                                               The(vd.description), svc))
        Checked(serializer) ==
            IF ~serializer.ok
            THEN Rejected(HTTP_400_BAD_REQUEST, "ValidationError")
            ELSE Validated(serializer.val)
    IN  Checked(TicketSerializer(data, FALSE))

Create(data, svc, now) ==
    \E out \in {perform_create(data, svc, now)} :
        Handle(Request("create", 0, data, svc), out, now)

\* serializer.save() of an update that drops the keyword fields
Updated_WithoutSignals(instance, vd, signals) ==
    [instance EXCEPT
        !.title       = OrElse(vd.title, @),
        !.description = OrElse(vd.description, @),
        !.category    = OrElse(vd.category, @),
        !.priority    = OrElse(vd.priority, @),
        !.status      = OrElse(vd.status, @)]

\* serializer.save(**kwargs) of an update: the instance with the validated
\* fields and the keyword fields set
Updated(instance, vd, signals) ==
    [instance EXCEPT
        !.title         = OrElse(vd.title, @),
        !.description   = OrElse(vd.description, @),
        !.category      = OrElse(vd.category, @),
        !.priority      = OrElse(vd.priority, @),
        !.status        = OrElse(vd.status, @),
        !.sentiment     = IF Has(signals) THEN The(signals).sentiment
                          ELSE OrElse(vd.sentiment, @),
        !.urgency_score = IF Has(signals) THEN The(signals).urgency_score
                          ELSE OrElse(vd.urgency_score, @)]

\* perform_update: whether the AI signals are recomputed
Rescore(vd) ==
    LET title_changed       == Has(vd.title)
        description_changed == Has(vd.description)
    IN  title_changed \/ description_changed

\* perform_update on the instance that get_object read: the validation, the
\* scoring call and serializer.save(), which writes every column of the
\* instance to the row of its id
partial_update(read, data, svc) ==
    LET Saved(row, calls, tries) ==
            IF ~CheckConstraints(row)
            THEN Outcome(Response(HTTP_500_INTERNAL_SERVER_ERROR, "IntegrityError", <<>>),
                         tickets, calls, tries)
            ELSE Outcome(Response(HTTP_200_OK, "", row), SaveRow(row), calls, tries)
        Scored(instance, vd, title, description, ai) ==
            Saved(Updated(instance, vd, Some(ai.value)),
                  <<ScoreCall(title, description, ai.value)>>, ai.attempts)
        Rescored(instance, vd, title, description) ==
            Scored(instance, vd, title, description,
                   score_sentiment_urgency(env, title, description, svc))
        Validated(instance, vd) ==
            IF Rescore(vd)
            THEN Rescored(instance, vd, OrElse(vd.title, instance.title),
                          OrElse(vd.description, instance.description))
            ELSE Saved(Updated(instance, vd, Absent), <<>>, 0)
        Checked(serializer) ==
            IF ~serializer.ok
            THEN Rejected(HTTP_400_BAD_REQUEST, "ValidationError")
            ELSE Validated(read, serializer.val)
    IN  Checked(TicketSerializer(data, TRUE))

\* TicketViewSet.partial_update -> get_object -> perform_update
perform_update(id, data, svc) ==
    IF id \notin Ids
    THEN Rejected(HTTP_404_NOT_FOUND, "NotFound")
    ELSE partial_update(tickets[id], data, svc)

Patch(id, data, svc) ==
    \E out \in {perform_update(id, data, svc)} :
        Handle(Request("patch", id, data, svc), out, clock)

\* Ticket.objects.create(**fields) inside transaction.atomic(): the insert
\* past the serializer, as tests.py does it; status and sentiment take the
\* model defaults
objects_create(title, description, category, priority, urgency_score, now) ==
    LET row == Row(Len(tickets) + 1, title, description, category, priority,
                   DEFAULT_STATUS, DEFAULT_SENTIMENT_URGENCY.sentiment,
                   urgency_score, now)
    IN  IF CheckConstraints(row)
        THEN Outcome(Response(0, "", row), Append(tickets, row), <<>>, 0)
        ELSE Rejected(0, "IntegrityError")

ObjectsCreate(title, description, category, priority, urgency_score, now) ==
    \E out \in {objects_create(title, description, category, priority,
                               urgency_score, now)} :
        Handle(Request("objects.create", 0,
                       Data(Some(title), Some(description), Some(category),
                            Some(priority), Absent, Absent,
                            Some(urgency_score), Absent), NoSvc),
               out, now)

-----------------------------------------------------------------------------
(* views.py: the read-only endpoints *)

\* Count("id") and Count("id", filter=Q(field=value)) over the table
Count == Cardinality(Ids)

CountWhere(field, value) == Cardinality({i \in Ids : tickets[i][field] = value})

RECURSIVE SumOf(_, _)
SumOf(f, n) == IF n = 0 THEN 0 ELSE f[n] + SumOf(f, n - 1)

\* Coalesce(Cast(Avg(...), FloatField()), Value(0.0)) as an exact fraction
Fraction(num, den) == [num |-> num, den |-> den]

Avg(f, n) == IF n = 0 THEN Fraction(0, 1) ELSE Fraction(SumOf(f, n), n)

\* TicketViewSet.stats: the three breakdowns
priority_breakdown ==
    [low      |-> CountWhere("priority", "low"),
     medium   |-> CountWhere("priority", "medium"),
     high     |-> CountWhere("priority", "high"),
     critical |-> CountWhere("priority", "critical")]

category_breakdown ==
    [billing   |-> CountWhere("category", "billing"),
     technical |-> CountWhere("category", "technical"),
     account   |-> CountWhere("category", "account"),
     general   |-> CountWhere("category", "general")]

\* a breakdown by sentiment grouped over the rows, without the values no
\* row has
sentiment_breakdown_Grouped ==
    [v \in {tickets[i].sentiment : i \in Ids} |-> CountWhere("sentiment", v)]

sentiment_breakdown ==
    [calm       |-> CountWhere("sentiment", "calm"),
     neutral    |-> CountWhere("sentiment", "neutral"),
     frustrated |-> CountWhere("sentiment", "frustrated"),
     angry      |-> CountWhere("sentiment", "angry")]

\* TicketViewSet.stats
stats ==
    LET days == {Day(tickets[i].created_at) : i \in Ids}
    IN  [total_tickets |-> Count,
         open_tickets |-> CountWhere("status", "open"),
         avg_tickets_per_day |->
            IF days = {} THEN Fraction(0, 1)
            ELSE Fraction(Cardinality(Ids), Cardinality(days)),
         priority_breakdown |-> priority_breakdown,
         category_breakdown |-> category_breakdown,
         sentiment_breakdown |-> sentiment_breakdown,
         avg_urgency_score |->
            Avg([i \in Ids |-> tickets[i].urgency_score], Len(tickets))]

Stats ==
    \E out \in {Outcome(Response(HTTP_200_OK, "", stats), tickets, <<>>, 0)} :
        Handle(Request("stats", 0, NoData, NoSvc), out, clock)

\* TicketViewSet.classify
classify(data, svc) ==
    LET Answered(response_serializer, tries) ==
            Outcome(Response(HTTP_200_OK, "",
                             IF response_serializer.ok THEN response_serializer.val
                             ELSE DEFAULT_CLASSIFICATION),
                    tickets, <<>>, tries)
        Classified(ai) ==
            Answered(TicketClassifyResponseSerializer(ai.value), ai.attempts)
        Checked(request_serializer) ==
            IF ~request_serializer.ok
            THEN Rejected(HTTP_400_BAD_REQUEST, "ValidationError")
            ELSE Classified(classify_ticket(env, request_serializer.val, svc))
    IN  Checked(DescriptionRequestSerializer(data))

Classify(data, svc) ==
    \E out \in {classify(data, svc)} :
        Handle(Request("classify", 0, data, svc), out, clock)

\* an empty title in the place of "Support request"
INVALID_TITLE_RESPONSE_Empty == <<>>

\* the title TicketViewSet.suggest_title answers with when the suggested one
\* does not pass the response serializer: "Support request"
INVALID_TITLE_RESPONSE ==
    <<"S", "u", "p", "p", "o", "r", "t", " ", "r", "e", "q", "u", "e", "s", "t">>

\* TicketViewSet.suggest_title
suggest_title_view(data, svc) ==
    LET Answered(response_serializer, tries) ==
            Outcome(Response(HTTP_200_OK, "",
                             [suggested_title |->
                                 IF response_serializer.ok THEN response_serializer.val
                                 ELSE INVALID_TITLE_RESPONSE]),
                    tickets, <<>>, tries)
        Suggested(ai) ==
            Answered(TicketSuggestTitleResponseSerializer(ai.value), ai.attempts)
        Checked(request_serializer) ==
            IF ~request_serializer.ok
            THEN Rejected(HTTP_400_BAD_REQUEST, "ValidationError")
            ELSE Suggested(suggest_title(env, request_serializer.val, svc))
    IN  Checked(DescriptionRequestSerializer(data))

SuggestTitle(data, svc) ==
    \E out \in {suggest_title_view(data, svc)} :
        Handle(Request("suggest-title", 0, data, svc), out, clock)

-----------------------------------------------------------------------------
(* views.py: the list endpoint *)

filterset_fields == {"category", "priority", "status"}

\* search over the title alone
search_fields_TitleOnly == {"title"}

search_fields == {"title", "description"}

\* term occurs in text
Contains(text, term) ==
    \E i \in 0..(Len(text) - Len(term)) : SubSeq(text, i + 1, i + Len(term)) = term

\* the filter backends applied to one row: every submitted filterset field
\* equals the row's, and some search field contains the submitted term
Matches(row, params) ==
    /\ \A f \in filterset_fields : Has(params[f]) => row[f] = The(params[f])
    /\ Has(params.search) =>
          \E f \in search_fields : Contains(row[f], The(params.search))

\* queryset.order_by("-created_at") of the rows at the given indices
RECURSIVE OrderByCreatedAtDesc(_)
OrderByCreatedAtDesc(idx) ==
    IF idx = {} THEN <<>>
    ELSE LET latest == CHOOSE i \in idx :
                          \A j \in idx : tickets[j].created_at <= tickets[i].created_at
         IN  <<tickets[latest]>> \o OrderByCreatedAtDesc(idx \ {latest})

\* TicketViewSet.list
list(params) ==
    OrderByCreatedAtDesc({i \in Ids : Matches(tickets[i], params)})

List(params) ==
    \E out \in {Outcome(Response(HTTP_200_OK, "", list(params)), tickets, <<>>, 0)} :
        Handle(Request("list", 0, params, NoSvc), out, clock)

-----------------------------------------------------------------------------
(* Inputs *)

\* c repeated n times
Fill(c, n) == [i \in 1..n |-> c]

Env(api_key, max_retries) ==
    [OPENAI_API_KEY |-> api_key, OPENAI_MAX_RETRIES |-> max_retries]

Svc(fails, final, payload) == [fails |-> fails, final |-> final, payload |-> payload]

ScorePayload(sentiment, urgency_score) ==
    JDict([sentiment |-> sentiment, urgency_score |-> urgency_score])

\* what the service does with a scoring request
ScoreSvcs ==
    {Svc(0, "error", JOther("null")),
     Svc(0, "json", ScorePayload(JStr("frustrated"), JInt(88)))}

TicketEnvs == {Env(<<"k">>, <<>>)}

TooLongTitle == Fill("a", TITLE_MAX_LENGTH + 1)

ValidCreateBodies ==
    {Body(Some(t), Some(<<"x">>), Some("general"), Some("low"), Absent) :
        t \in {<<"a">>, <<" ", "b">>}}

InvalidCreateBodies ==
    {Body(Some(TooLongTitle), Some(<<"x">>), Some("general"), Some("low"), Absent),
     Body(Some(<<"a">>), Some(<<"\t">>), Some("general"), Some("low"), Absent),
     Body(Some(<<"a">>), Some(<<"x">>), Some("urgent"), Some("low"), Absent)}

CreateBodies == ValidCreateBodies \cup InvalidCreateBodies

PatchBodies ==
    {Body(Absent, Absent, Absent, Absent, Some("resolved")),
     Body(Absent, Absent, Absent, Absent, Some("done")),
     Body(Some(<<"a">>), Absent, Absent, Absent, Absent),
     Body(Some(<<"b", " ">>), Absent, Absent, Absent, Absent),
     Body(Some(<<" ">>), Absent, Absent, Absent, Absent),
     Body(Absent, Some(<<"y">>), Absent, Absent, Absent),
     Body(Absent, Some(<<"x">>), Absent, Absent, Absent),
     Body(Some(<<"b">>), Some(<<"y">>), Absent, Absent, Absent),
     Body(Some(<<"a">>), Absent, Absent, Absent, Some("open"))}

-----------------------------------------------------------------------------
(* The ticket API: create, PATCH, and inserts past the serializer *)

Init ==
    /\ tickets = <<>>
    /\ clock = 0
    /\ env \in TicketEnvs
    /\ request = Request("none", 0, NoData, NoSvc)
    /\ response = Response(0, "", <<>>)
    /\ scoreCalls = <<>>
    /\ attempts = 0
    /\ lastScore = NoScores
    /\ inflight = NoneInFlight

CreateRequest ==
    \E data \in CreateBodies, svc \in ScoreSvcs :
        Create(data, svc, clock + 1) /\ Len(tickets') <= MaxTickets

PatchRequest ==
    \E id \in 1..(Len(tickets) + 1), data \in PatchBodies, svc \in ScoreSvcs :
        Patch(id, data, svc)

ObjectsCreateCall ==
    \E fields \in {<<"general", 50>>, <<"general", 101>>, <<"general", 0 - 1>>,
                   <<"urgent", 50>>} :
        /\ ObjectsCreate(<<"a">>, <<"x">>, fields[1], "low", fields[2], clock + 1)
        /\ Len(tickets') <= MaxTickets

Next == CreateRequest \/ PatchRequest \/ ObjectsCreateCall

Spec == Init /\ [][Next]_vars

-----------------------------------------------------------------------------
(* Properties of the ticket API *)

\* the last request was a PATCH answered with 200
PatchSucceeded == request.op = "patch" /\ response.status = HTTP_200_OK

\* C3 as stated: a PATCH that leaves the ticket's title and description as
\* they were makes no call to score_sentiment_urgency and leaves the stored
\* sentiment and urgency_score as they were.
C3_UnchangedTextNotRescored ==
    [][(/\ PatchSucceeded'
        /\ tickets'[request'.id].title = tickets[request'.id].title
        /\ tickets'[request'.id].description = tickets[request'.id].description)
       => /\ scoreCalls' = <<>>
          /\ tickets'[request'.id].sentiment = tickets[request'.id].sentiment
          /\ tickets'[request'.id].urgency_score = tickets[request'.id].urgency_score]_vars

\* C4: a PATCH answered with 200 that carries a title or a description calls
\* score_sentiment_urgency exactly once, with the title and description the
\* ticket has after the update (the submitted value, trimmed, for a submitted
\* field and the stored value for the other), and the ticket stored and
\* returned carries the sentiment and urgency_score of that call.
C4_PatchWithTextRescoredOnce ==
    [][(/\ PatchSucceeded'
        /\ Has(request'.data.title) \/ Has(request'.data.description))
       => LET before      == tickets[request'.id]
              after       == tickets'[request'.id]
              title       == IF Has(request'.data.title)
                             THEN Strip(The(request'.data.title), Whitespace)
                             ELSE before.title
              description == IF Has(request'.data.description)
                             THEN Strip(The(request'.data.description), Whitespace)
                             ELSE before.description
          IN  /\ Len(scoreCalls') = 1
              /\ scoreCalls'[1].title = title
              /\ scoreCalls'[1].description = description
              /\ after.title = title
              /\ after.description = description
              /\ after.sentiment = scoreCalls'[1].result.sentiment
              /\ after.urgency_score = scoreCalls'[1].result.urgency_score
              /\ response'.data = after]_vars

\* a PATCH of the description alone went through and the call scored the
\* ticket "frustrated", 88
C4_Witness ==
    /\ PatchSucceeded
    /\ ~Has(request.data.title)
    /\ request.data.description = Some(<<"y">>)
    /\ Len(scoreCalls) = 1
    /\ scoreCalls[1].description = <<"y">>
    /\ scoreCalls[1].result = [sentiment |-> "frustrated", urgency_score |-> 88]
    /\ tickets[request.id].urgency_score = 88

\* every stored ticket is within its ranges
TableValid ==
    \A i \in Ids :
        /\ tickets[i].urgency_score \in URGENCY_MIN..URGENCY_MAX
        /\ tickets[i].category \in Category
        /\ tickets[i].priority \in Priority
        /\ tickets[i].status \in Status
        /\ tickets[i].sentiment \in Sentiment

\* the fields submitted to Ticket.objects.create are within their ranges
SubmittedValid(data) ==
    /\ The(data.category) \in Category
    /\ The(data.priority) \in Priority
    /\ The(data.urgency_score) \in URGENCY_MIN..URGENCY_MAX

\* C8: every stored ticket has urgency_score in 0..100 and category,
\* priority, status and sentiment in their enumerations; an attempt to store
\* a ticket that breaks this is rejected with an integrity error and leaves
\* the table unchanged.
C8_TableWithinConstraints ==
    /\ []TableValid
    /\ [][/\ (request'.op = "objects.create" /\ ~SubmittedValid(request'.data))
             => response'.error = "IntegrityError"
          /\ response'.error = "IntegrityError" => tickets' = tickets]_vars

\* an insert with urgency_score 101 was rejected while the table held a row
C8_Witness ==
    /\ request.op = "objects.create"
    /\ request.data.urgency_score = Some(101)
    /\ response.error = "IntegrityError"
    /\ Len(tickets) = 1

-----------------------------------------------------------------------------
(* The endpoints that consult the service, under every outcome of the call *)

\* what the service can answer to a scoring request
ScorePayloads ==
    {ScorePayload(JStr("angry"), JInt(97)),
     ScorePayload(JStr("calm"), JFloat(12, 0)),
     ScorePayload(JStr("calm"), JInt(URGENCY_MIN)),
     ScorePayload(JStr("angry"), JInt(URGENCY_MAX)),
     ScorePayload(JStr("angry"), JInt(URGENCY_MAX + 1)),
     ScorePayload(JStr("calm"), JInt(URGENCY_MIN - 1)),
     ScorePayload(JStr("calm"), JFloat(88, 5)),
     ScorePayload(JStr("calm"), JBool(TRUE)),
     ScorePayload(JStr("calm"), JText(<<"8", "8">>)),
     ScorePayload(JStr("calm"), JNone),
     ScorePayload(JStr("happy"), JInt(50)),
     ScorePayload(JText(<<"c", "a", "l", "m", " ">>), JInt(50)),
     ScorePayload(JList, JInt(50)),
     ScorePayload(JNone, JInt(50)),
     JDict(NoFields),
     JOther("list"),
     JOther("null")}

ClassifyPayload(category, priority) ==
    JDict([suggested_category |-> category, suggested_priority |-> priority])

\* what the service can answer to a classification request
ClassifyPayloads ==
    {ClassifyPayload(JStr("billing"), JStr("high")),
     ClassifyPayload(JStr("technical"), JStr("critical")),
     ClassifyPayload(JStr("urgent"), JStr("high")),
     ClassifyPayload(JStr("billing"), JStr("urgent")),
     ClassifyPayload(JStr("high"), JStr("billing")),
     ClassifyPayload(JList, JStr("high")),
     ClassifyPayload(JStr("billing"), JList),
     ClassifyPayload(JNone, JStr("high")),
     ClassifyPayload(JStr("billing"), JInt(1)),
     JDict(NoFields),
     JOther("list"),
     JOther("null")}

\* the service answering each payload, failing in each way it can fail, and
\* failing once with a retryable error before it answers
Svcs(payloads, answer) ==
    {Svc(0, "json", p) : p \in payloads}
        \cup {Svc(0, final, JOther("null")) :
                 final \in {"error", "no_choices", "no_content", "bad_json"}}
        \cup {Svc(1, "json", answer)}

AiEnvs == {Env(<<>>, <<>>), Env(<<" ">>, <<>>), Env(<<"k">>, <<>>)}

AiCreateBodies ==
    {Body(Some(<<" ", "a">>), Some(<<"x", "\n">>), Some("general"), Some("low"),
          Some("closed")),
     Body(Some(<<"a">>), Some(<<"x">>), Some("billing"), Absent, Absent),
     Body(Some(<<"a">>), Some(<<"x">>), Some("billing"), Some("high"), Some("done")),
     Body(Some(<<"a", "NUL">>), Some(<<"x">>), Some("billing"), Some("high"), Absent)}

DescriptionBody(description) == Body(Absent, description, Absent, Absent, Absent)

AiClassifyBodies ==
    {DescriptionBody(Some(<<"x">>)), DescriptionBody(Some(<<" ", "x", "\t">>)),
     DescriptionBody(Some(<<" ", "\n">>)), DescriptionBody(Some(<<"x", "NUL">>)),
     DescriptionBody(Absent)}

InitAi ==
    /\ tickets = <<>>
    /\ clock = 0
    /\ env \in AiEnvs
    /\ request = Request("none", 0, NoData, NoSvc)
    /\ response = Response(0, "", <<>>)
    /\ scoreCalls = <<>>
    /\ attempts = 0
    /\ lastScore = NoScores
    /\ inflight = NoneInFlight

AiCreateRequest ==
    \E data \in AiCreateBodies,
       svc \in Svcs(ScorePayloads, ScorePayload(JStr("angry"), JInt(97))) :
        Create(data, svc, clock + 1) /\ Len(tickets') <= MaxTickets

AiClassifyRequest ==
    \E data \in AiClassifyBodies,
       svc \in Svcs(ClassifyPayloads, ClassifyPayload(JStr("billing"), JStr("high"))) :
        Classify(data, svc)

NextAi == AiCreateRequest \/ AiClassifyRequest

SpecAi == InitAi /\ [][NextAi]_vars

-----------------------------------------------------------------------------
(* Properties of the endpoints under the outcomes of the service *)

\* a text with something other than whitespace in it
NonBlank(text) == \E i \in 1..Len(text) : text[i] \notin Whitespace

\* a text a CharField takes as a non-blank string: something other than
\* whitespace in it and no NUL character
NonBlankString(text) == NonBlank(text) /\ \A i \in 1..Len(text) : text[i] # "NUL"

\* no API key is configured
NoApiKey == ~NonBlank(Getenv(env, "OPENAI_API_KEY"))

\* the call of the last request raised, or came back without content
CallFailed ==
    \/ request.svc.fails > 0
    \/ request.svc.final \in {"error", "bad_json", "no_choices", "no_content"}

\* a whole number as JSON can carry it: an int or a float without fraction
IsWhole(x) == x.t = "int" \/ (x.t = "float" /\ x.f = 0)

\* the payload of the last request is a sentiment and an urgency score
ScorePayloadValid ==
    /\ request.svc.payload.t = "dict"
    /\ {"sentiment", "urgency_score"} \subseteq DOMAIN request.svc.payload.fields
    /\ request.svc.payload.fields.sentiment.t = "str"
    /\ request.svc.payload.fields.sentiment.cs = <<>>
    /\ request.svc.payload.fields.sentiment.s \in Sentiment
    /\ IsWhole(request.svc.payload.fields.urgency_score)
    /\ request.svc.payload.fields.urgency_score.n \in URGENCY_MIN..URGENCY_MAX

\* the payload of the last request is a category and a priority
ClassifyPayloadValid ==
    /\ request.svc.payload.t = "dict"
    /\ {"suggested_category", "suggested_priority"}
           \subseteq DOMAIN request.svc.payload.fields
    /\ request.svc.payload.fields.suggested_category.t = "str"
    /\ request.svc.payload.fields.suggested_category.cs = <<>>
    /\ request.svc.payload.fields.suggested_category.s \in Category
    /\ request.svc.payload.fields.suggested_priority.t = "str"
    /\ request.svc.payload.fields.suggested_priority.cs = <<>>
    /\ request.svc.payload.fields.suggested_priority.s \in Priority

\* the body of the last request carries a valid title, description, category
\* and priority
CreateBodyValid ==
    /\ Has(request.data.title) /\ NonBlankString(The(request.data.title))
    /\ Len(The(request.data.title)) <= TITLE_MAX_LENGTH
    /\ Has(request.data.status) => The(request.data.status) \in Status
    /\ Has(request.data.description) /\ NonBlankString(The(request.data.description))
    /\ Has(request.data.category) /\ The(request.data.category) \in Category
    /\ Has(request.data.priority) /\ The(request.data.priority) \in Priority

\* the table holds the ticket the last response returned, as its latest row
ReturnedTicketStored ==
    /\ tickets # <<>>
    /\ tickets[Len(tickets)] = response.data

\* C1: a create with a valid title, description, category and priority is
\* answered 201 and its ticket is stored, whatever the scoring call did; with
\* no API key, a call that raised or a payload that fails validation the
\* ticket stored and returned has sentiment "neutral" and urgency_score 50.
C1_CreateSucceedsWithFallback ==
    (request.op = "create" /\ CreateBodyValid)
        => /\ response.status = HTTP_201_CREATED
           /\ ReturnedTicketStored
           /\ (NoApiKey \/ CallFailed \/ ~ScorePayloadValid)
                 => /\ response.data.sentiment = "neutral"
                    /\ response.data.urgency_score = 50

\* a create went through although the service scored the ticket 101
C1_Witness ==
    /\ request.op = "create"
    /\ CreateBodyValid
    /\ ~NoApiKey
    /\ request.svc = Svc(0, "json", ScorePayload(JStr("angry"), JInt(URGENCY_MAX + 1)))
    /\ response.status = HTTP_201_CREATED
    /\ tickets[1].urgency_score = 50

\* C2: classify answers every request whose description is a non-blank
\* string with 200; with no API key, a call that raised, empty or unparsable content, or
\* a payload whose category or priority is not an enumerated value, the
\* response is exactly {suggested_category: general, suggested_priority: low}.
C2_ClassifyAlwaysAnswers ==
    (/\ request.op = "classify"
     /\ Has(request.data.description)
     /\ NonBlankString(The(request.data.description)))
        => /\ response.status = HTTP_200_OK
           /\ (NoApiKey \/ CallFailed \/ ~ClassifyPayloadValid)
                 => response.data = [suggested_category |-> "general",
                                     suggested_priority |-> "low"]

\* classify answered the defaults to a payload whose priority is no priority
C2_Witness ==
    /\ request.op = "classify"
    /\ ~NoApiKey
    /\ request.svc = Svc(0, "json", ClassifyPayload(JStr("billing"), JStr("urgent")))
    /\ response.status = HTTP_200_OK
    /\ response.data = DEFAULT_CLASSIFICATION

-----------------------------------------------------------------------------
(* The three AI operations called on their own, under every configuration  *)
(* of the environment                                                      *)

\* most retryable errors the service answers with before its final answer
MaxFails == 3

TitlePayload(title) == JDict([suggested_title |-> title])

\* OPENAI_MAX_RETRIES: unset, not a number, negative, 0, 1, 2, and 1 padded
RetrySettings ==
    {<<>>, <<"x">>, <<"1", ".", "0">>, <<"-", "1">>, <<"0">>, <<"1">>, <<"2">>,
     <<" ", "1", "\n">>}

OpsEnvs == {Env(<<>>, <<"2">>)} \cup {Env(<<"k">>, r) : r \in RetrySettings}

\* the service failing up to MaxFails times before it answers or fails for
\* good, and answering each payload at once
OpsSvcs(payloads, answer) ==
    {Svc(n, final, answer) : n \in 0..MaxFails, final \in {"json", "error"}}
        \cup {Svc(0, "json", p) : p \in payloads}
        \cup {Svc(0, "bad_json", JOther("null"))}

OpsDescriptions == {<<"x">>, <<"y", ".", " ", "z">>, <<"?">>}

\* classify_ticket(description)
ClassifyTicketCall(description, svc) ==
    \E ai \in {classify_ticket(env, description, svc)} :
        Handle(Request("classify_ticket", 0, DescriptionBody(Some(description)), svc),
               Outcome(Response(0, "", ai.value), tickets, <<>>, ai.attempts), clock)

\* suggest_title(description)
SuggestTitleCall(description, svc) ==
    \E ai \in {suggest_title(env, description, svc)} :
        Handle(Request("suggest_title", 0, DescriptionBody(Some(description)), svc),
               Outcome(Response(0, "", ai.value), tickets, <<>>, ai.attempts), clock)

\* score_sentiment_urgency(title, description)
ScoreSentimentUrgencyCall(title, description, svc) ==
    \E ai \in {score_sentiment_urgency(env, title, description, svc)} :
        Handle(Request("score_sentiment_urgency", 0,
                       Body(Some(title), Some(description), Absent, Absent, Absent),
                       svc),
               Outcome(Response(0, "", ai.value), tickets, <<>>, ai.attempts), clock)

InitOps ==
    /\ tickets = <<>>
    /\ clock = 0
    /\ env \in OpsEnvs
    /\ request = Request("none", 0, NoData, NoSvc)
    /\ response = Response(0, "", <<>>)
    /\ scoreCalls = <<>>
    /\ attempts = 0
    /\ lastScore = NoScores
    /\ inflight = NoneInFlight

OpsClassify ==
    \E description \in OpsDescriptions,
       svc \in OpsSvcs({ClassifyPayload(JStr("billing"), JStr("urgent")),
                        ClassifyPayload(JStr("urgent"), JStr("high")),
                        ClassifyPayload(JList, JStr("high"))},
                       ClassifyPayload(JStr("billing"), JStr("high"))) :
        ClassifyTicketCall(description, svc)

OpsSuggestTitle ==
    \E description \in OpsDescriptions,
       svc \in OpsSvcs({TitlePayload(JText(<<" ">>)), TitlePayload(JInt(1)),
                        JOther("list")},
                       TitlePayload(JText(<<"T">>))) :
        SuggestTitleCall(description, svc)

OpsScore ==
    \E description \in OpsDescriptions,
       svc \in OpsSvcs({ScorePayload(JStr("angry"), JInt(URGENCY_MAX + 1)),
                        ScorePayload(JStr("happy"), JInt(50)),
                        ScorePayload(JList, JInt(50))},
                       ScorePayload(JStr("angry"), JInt(97))) :
        ScoreSentimentUrgencyCall(<<"a">>, description, svc)

NextOps == OpsClassify \/ OpsSuggestTitle \/ OpsScore

SpecOps == InitOps /\ [][NextOps]_vars

-----------------------------------------------------------------------------
(* Properties of the AI operations *)

\* the call of the last request ended with an exception
CallRaised == ~NoApiKey /\ request.svc.final \in {"error", "bad_json"}

\* the payload of the last request is a title with something in it
TitlePayloadValid ==
    /\ request.svc.payload.t = "dict"
    /\ "suggested_title" \in DOMAIN request.svc.payload.fields
    /\ request.svc.payload.fields.suggested_title.t = "str"
    /\ NonBlank(request.svc.payload.fields.suggested_title.cs)

\* the service answered the last request at once with a payload that fails
\* the operation's validation
ResultInvalid ==
    /\ ~NoApiKey
    /\ request.svc.fails = 0
    /\ request.svc.final = "json"
    /\ CASE request.op = "classify_ticket"          -> ~ClassifyPayloadValid
         [] request.op = "suggest_title"            -> ~TitlePayloadValid
         [] request.op = "score_sentiment_urgency"  -> ~ScorePayloadValid
         [] OTHER                                   -> FALSE

\* the last request was an operation whose call raised or whose result
\* failed validation
OpFailed == request.op # "none" /\ (CallRaised \/ ResultInvalid)

\* C6 as stated: an operation whose call raises or whose result fails
\* validation yields the same value whatever input it was called with.
C6_FallbackIsFixed ==
    [][(OpFailed /\ OpFailed' /\ request'.op = request.op)
          => response'.data = response.data]_vars

\* C6 amended: when the call raises or its result fails validation,
\* classify_ticket yields {general, low} and score_sentiment_urgency yields
\* {neutral, 50} whatever their input, and suggest_title yields a title that
\* depends on the description alone.
C6_FallbackFixedOrFromDescription ==
    /\ [](OpFailed /\ request.op = "classify_ticket"
            => response.data = [suggested_category |-> "general",
                                suggested_priority |-> "low"])
    /\ [](OpFailed /\ request.op = "score_sentiment_urgency"
            => response.data = [sentiment |-> "neutral", urgency_score |-> 50])
    /\ [][(/\ OpFailed /\ request.op = "suggest_title"
           /\ OpFailed' /\ request'.op = "suggest_title"
           /\ request'.data.description = request.data.description)
             => response'.data = response.data]_vars

\* suggest_title fell back on the first sentence of the description
C6_Witness ==
    /\ request.op = "suggest_title"
    /\ OpFailed
    /\ request.data.description = Some(<<"y", ".", " ", "z">>)
    /\ response.data = <<"y">>

\* the retries OPENAI_MAX_RETRIES asks for: a whole number, not negative
RetryBudget ==
    CASE Getenv(env, "OPENAI_MAX_RETRIES") \in {<<"1">>, <<" ", "1", "\n">>} -> 1
      [] Getenv(env, "OPENAI_MAX_RETRIES") = <<"2">>                          -> 2
      [] OTHER                                                                -> 0

\* C7 as stated: one invocation makes at most one attempt to call the
\* service, under every configuration of the environment.
C7_AtMostOneAttempt == attempts <= 1

\* C7 amended: one invocation makes at most one attempt plus the retries
\* OPENAI_MAX_RETRIES asks for (none when it is unset, not a whole number,
\* negative or 0) and no attempt without an API key; once the attempts are
\* used up it makes no further call, and classify_ticket and
\* score_sentiment_urgency return their defaults.
C7_AttemptsWithinRetryBudget ==
    /\ attempts <= 1 + RetryBudget
    /\ NoApiKey => attempts = 0
    /\ (request.op # "none" /\ ~NoApiKey /\ request.svc.fails > RetryBudget)
          => /\ attempts = 1 + RetryBudget
             /\ request.op = "classify_ticket"
                   => response.data = [suggested_category |-> "general",
                                       suggested_priority |-> "low"]
             /\ request.op = "score_sentiment_urgency"
                   => response.data = [sentiment |-> "neutral", urgency_score |-> 50]

\* with OPENAI_MAX_RETRIES=2 a classification was answered at the third
\* attempt
C7_Witness ==
    /\ request.op = "classify_ticket"
    /\ Getenv(env, "OPENAI_MAX_RETRIES") = <<"2">>
    /\ request.svc.fails = 2
    /\ attempts = 3
    /\ response.data = [suggested_category |-> "billing", suggested_priority |-> "high"]

-----------------------------------------------------------------------------
(* The suggest-title endpoint, under every outcome of the call *)

\* descriptions: short, nothing but punctuation, quoted, two sentences, one
\* word longer than the preferred length, a space at the preferred length,
\* blank, with a NUL character, and none
TitleDescriptions ==
    {Some(<<"x">>), Some(<<"?">>), Some(<<"QUOTE", "x", "QUOTE", ".">>),
     Some(<<"y", ".", " ", "z">>),
     Some(Fill("a", PREFERRED_TITLE_MAX_LENGTH + 1)),
     Some(Fill("a", PREFERRED_TITLE_MAX_LENGTH - 1) \o <<" ", "b", "b">>),
     Some(<<" ", "\n">>), Some(<<"x", "NUL">>), Absent}

\* titles the service can answer: short, padded, blank, nothing but quotes,
\* of the hard length, one longer, a space at the hard length, with a NUL
\* character; and answers that are no title
TitlePayloads ==
    {TitlePayload(JText(<<"T">>)),
     TitlePayload(JText(<<" ", "T", "\n", "t", ".">>)),
     TitlePayload(JText(<<" ">>)),
     TitlePayload(JText(<<"QUOTE", ".", "QUOTE">>)),
     TitlePayload(JText(Fill("a", HARD_TITLE_MAX_LENGTH))),
     TitlePayload(JText(Fill("a", HARD_TITLE_MAX_LENGTH + 1))),
     TitlePayload(JText(Fill("a", HARD_TITLE_MAX_LENGTH - 1) \o <<" ", "b">>)),
     TitlePayload(JText(<<"T", "NUL">>)),
     TitlePayload(JInt(1)),
     TitlePayload(JNone),
     JDict(NoFields),
     JOther("list")}

TitleSuggestRequest ==
    \E description \in TitleDescriptions,
       svc \in Svcs(TitlePayloads, TitlePayload(JText(<<"T">>))) :
        SuggestTitle(DescriptionBody(description), svc)

NextTitle == TitleSuggestRequest

SpecTitle == InitAi /\ [][NextTitle]_vars

\* C5: suggest-title answers every request whose description is a non-blank
\* string with 200 and a suggested_title that is a string, not empty once
\* trimmed, of at most 120 characters, whatever the call did.
C5_SuggestedTitleWellFormed ==
    (/\ request.op = "suggest-title"
     /\ Has(request.data.description)
     /\ NonBlankString(The(request.data.description)))
        => /\ response.status = HTTP_200_OK
           /\ DOMAIN response.data = {"suggested_title"}
           /\ DOMAIN response.data.suggested_title
                 = 1..Len(response.data.suggested_title)
           /\ NonBlank(response.data.suggested_title)
           /\ Len(response.data.suggested_title) <= 120

\* a title of 121 characters from the service was answered cut to 120
C5_Witness ==
    /\ request.op = "suggest-title"
    /\ ~NoApiKey
    /\ request.svc = Svc(0, "json",
                         TitlePayload(JText(Fill("a", HARD_TITLE_MAX_LENGTH + 1))))
    /\ response.status = HTTP_200_OK
    /\ Len(response.data.suggested_title) = 120

-----------------------------------------------------------------------------
(* The list and stats endpoints over the tables that creates build *)

\* the service scoring a ticket angry, 97
AngrySvc == Svc(0, "json", ScorePayload(JStr("angry"), JInt(97)))

\* creates: the body and the outcome of its scoring call
QueryCreates ==
    {<<Body(Some(<<"a", "b">>), Some(<<"x">>), Some("billing"), Some("high"), Absent),
       NoSvc>>,
     <<Body(Some(<<"b">>), Some(<<"a">>), Some("billing"), Some("low"),
            Some("closed")), AngrySvc>>,
     <<Body(Some(<<"c">>), Some(<<"x">>), Some("general"), Some("high"), Absent),
       AngrySvc>>,
     <<Body(Some(<<"b", "a">>), Some(<<"c">>), Some("general"), Some("low"),
            Some("closed")), NoSvc>>}

\* query strings: no parameter, each filter alone, a search alone, and
\* filters and searches together
Queries ==
    {Query(Absent, Absent, Absent, Absent),
     Query(Some("billing"), Absent, Absent, Absent),
     Query(Some("account"), Absent, Absent, Absent),
     Query(Absent, Some("high"), Absent, Absent),
     Query(Absent, Absent, Some("closed"), Absent),
     Query(Absent, Absent, Absent, Some(<<"a">>)),
     Query(Absent, Absent, Absent, Some(<<"a", "b">>)),
     Query(Absent, Absent, Absent, Some(<<"x">>)),
     Query(Some("billing"), Some("low"), Absent, Absent),
     Query(Some("general"), Absent, Some("closed"), Some(<<"c">>)),
     Query(Some("billing"), Some("high"), Some("open"), Some(<<"b">>)),
     Query(Absent, Some("low"), Absent, Some(<<"a">>))}

QueryCreate ==
    \E c \in QueryCreates, now \in {clock + 1, clock + TicksPerDay} :
        Create(c[1], c[2], now) /\ Len(tickets') <= MaxRows

QueryList == \E params \in Queries : List(params)

QueryStats == Stats

NextQuery == QueryCreate \/ QueryList \/ QueryStats

SpecQuery == Init /\ [][NextQuery]_vars

-----------------------------------------------------------------------------
(* Properties of the list and stats endpoints *)

\* term is a run of consecutive characters of text
Occurs(term, text) ==
    \E i \in 1..(Len(text) + 1), j \in 0..Len(text) : SubSeq(text, i, j) = term

\* the stored tickets that equal every filter value the last request gave
\* and whose title or description contains its search term
Wanted ==
    {i \in Ids :
        /\ Has(request.data.category) => tickets[i].category = The(request.data.category)
        /\ Has(request.data.priority) => tickets[i].priority = The(request.data.priority)
        /\ Has(request.data.status) => tickets[i].status = The(request.data.status)
        /\ Has(request.data.search) =>
              \/ Occurs(The(request.data.search), tickets[i].title)
              \/ Occurs(The(request.data.search), tickets[i].description)}

\* C9: a list request with any subset of category, priority, status and
\* search is answered 200 with exactly the stored tickets that equal every
\* given filter value and whose title or description contains the search
\* term, each once, and no other ticket.
C9_ListIsConjunctionOfFilters ==
    request.op = "list"
        => /\ response.status = HTTP_200_OK
           /\ {response.data[k] : k \in 1..Len(response.data)}
                 = {tickets[i] : i \in Wanted}
           /\ Len(response.data) = Cardinality(Wanted)

\* of two billing tickets, a list by priority low and search "a" returned the
\* one that has "a" in its description only
C9_Witness ==
    /\ request.op = "list"
    /\ request.data = Query(Absent, Some("low"), Absent, Some(<<"a">>))
    /\ Len(tickets) = 2
    /\ tickets[1].title = <<"a", "b">> /\ tickets[1].priority = "high"
    /\ tickets[2].title = <<"b">> /\ tickets[2].description = <<"a">>
    /\ response.data = <<tickets[2]>>

\* the number of stored tickets whose field has the value
Tally(field, value) == Cardinality({i \in Ids : tickets[i][field] = value})

\* C10: whatever the table holds, the stats response has the keys
\* total_tickets, open_tickets, avg_tickets_per_day and avg_urgency_score,
\* and each of its three breakdowns has exactly the four values of its field
\* as keys, each with the number of tickets that have it, 0 when none has.
C10_StatsShape ==
    request.op = "stats"
        => /\ response.status = HTTP_200_OK
           /\ {"total_tickets", "open_tickets", "avg_tickets_per_day",
               "avg_urgency_score", "priority_breakdown", "category_breakdown",
               "sentiment_breakdown"} \subseteq DOMAIN response.data
           /\ DOMAIN response.data.priority_breakdown = Priority
           /\ DOMAIN response.data.category_breakdown = Category
           /\ DOMAIN response.data.sentiment_breakdown = Sentiment
           /\ \A v \in Priority :
                 response.data.priority_breakdown[v] = Tally("priority", v)
           /\ \A v \in Category :
                 response.data.category_breakdown[v] = Tally("category", v)
           /\ \A v \in Sentiment :
                 response.data.sentiment_breakdown[v] = Tally("sentiment", v)

\* the stats of a table of one angry ticket count no calm ticket
C10_Witness ==
    /\ request.op = "stats"
    /\ Len(tickets) = 1
    /\ tickets[1].sentiment = "angry"
    /\ response.data.sentiment_breakdown.angry = 1
    /\ response.data.sentiment_breakdown.calm = 0
    /\ response.data.total_tickets = 1

-----------------------------------------------------------------------------
(* classify_ticket and score_sentiment_urgency over what the service can    *)
(* return                                                                   *)

\* valid payloads that carry a field more
ExtraFieldPayloads ==
    {JDict([sentiment |-> JStr("frustrated"), urgency_score |-> JInt(7),
            note |-> JText(<<"n">>)]),
     JDict([suggested_category |-> JStr("account"),
            suggested_priority |-> JStr("medium"), note |-> JInt(1)])}

PayloadClassify ==
    \E svc \in Svcs(ClassifyPayloads \cup ExtraFieldPayloads,
                    ClassifyPayload(JStr("billing"), JStr("high"))) :
        ClassifyTicketCall(<<"x">>, svc)

PayloadScore ==
    \E svc \in Svcs(ScorePayloads \cup ExtraFieldPayloads,
                    ScorePayload(JStr("angry"), JInt(97))) :
        ScoreSentimentUrgencyCall(<<"a">>, <<"x">>, svc)

NextPayload == PayloadClassify \/ PayloadScore

SpecPayload == InitAi /\ [][NextPayload]_vars

\* the service answered the last request, at the first attempt, with JSON
Answered == ~NoApiKey /\ request.svc.fails = 0 /\ request.svc.final = "json"

\* C11: whatever the service returns, classify_ticket returns an enumerated
\* category and priority and score_sentiment_urgency an enumerated sentiment
\* and a whole urgency_score in 0..100; a payload that is valid is returned
\* as it is, not replaced by the default.
C11_ValidatedOrDefault ==
    /\ request.op = "classify_ticket"
          => /\ DOMAIN response.data = {"suggested_category", "suggested_priority"}
             /\ response.data.suggested_category \in Category
             /\ response.data.suggested_priority \in Priority
             /\ (Answered /\ ClassifyPayloadValid)
                   => /\ response.data.suggested_category
                            = request.svc.payload.fields.suggested_category.s
                      /\ response.data.suggested_priority
                            = request.svc.payload.fields.suggested_priority.s
    /\ request.op = "score_sentiment_urgency"
          => /\ DOMAIN response.data = {"sentiment", "urgency_score"}
             /\ response.data.sentiment \in Sentiment
             /\ response.data.urgency_score \in 0..100
             /\ (Answered /\ ScorePayloadValid)
                   => /\ response.data.sentiment
                            = request.svc.payload.fields.sentiment.s
                      /\ response.data.urgency_score
                            = request.svc.payload.fields.urgency_score.n

\* a score of 12.0 with sentiment calm was returned as calm, 12
C11_Witness ==
    /\ request.op = "score_sentiment_urgency"
    /\ Answered
    /\ request.svc.payload = ScorePayload(JStr("calm"), JFloat(12, 0))
    /\ response.data = [sentiment |-> "calm", urgency_score |-> 12]

-----------------------------------------------------------------------------
(* Create and PATCH requests, one after the other, with bodies that also
   carry sentiment and urgency_score *)

\* what the service answers to the scoring requests
SignalSvcs ==
    {Svc(0, "json", ScorePayload(JStr("frustrated"), JInt(88))),
     Svc(0, "json", ScorePayload(JStr("calm"), JInt(10)))}

\* the sentiment and urgency_score a client puts in a body
ClientSentiment == "angry"

ClientUrgency == URGENCY_MAX - 1

WithSignals(body) ==
    [body EXCEPT !.sentiment = Some(ClientSentiment),
                 !.urgency_score = Some(ClientUrgency)]

SignalCreateBodies ==
    {WithSignals(Body(Some(<<"a">>), Some(<<"x">>), Some("general"), Some("low"), Absent)),
     WithSignals(Body(Some(<<"a">>), Some(<<>>), Some("general"), Some("low"), Absent))}

SignalPatchBodies ==
    {WithSignals(Body(Absent, Absent, Absent, Absent, Some("closed"))),
     WithSignals(Body(Some(<<"b", " ">>), Absent, Absent, Absent, Absent)),
     WithSignals(Body(Some(<<"b">>), Absent, Some("urgent"), Absent, Absent))}

SignalCreateRequest ==
    \E data \in SignalCreateBodies, svc \in SignalSvcs :
        Create(data, svc, clock + 1) /\ Len(tickets') <= MaxRows

SignalPatchRequest ==
    \E id \in 1..(Len(tickets) + 1), data \in SignalPatchBodies, svc \in SignalSvcs :
        Patch(id, data, svc)

NextSignals == SignalCreateRequest \/ SignalPatchRequest

SpecSignals == Init /\ [][NextSignals]_vars

\* C12: after any sequence of create and PATCH requests made one after the
\* other, every stored ticket has had a scoring call made for it, its stored
\* sentiment and urgency_score are the result of the latest such call, that
\* call was made on the title and description the ticket now stores, and no
\* ticket stores the sentiment or the urgency_score that a client sent.
C12_SignalsFromLatestScoring ==
    \A i \in Ids :
        /\ i \in DOMAIN lastScore
        /\ tickets[i].sentiment = lastScore[i].result.sentiment
        /\ tickets[i].urgency_score = lastScore[i].result.urgency_score
        /\ tickets[i].title = lastScore[i].title
        /\ tickets[i].description = lastScore[i].description
        /\ tickets[i].sentiment # ClientSentiment
        /\ tickets[i].urgency_score # ClientUrgency

\* a PATCH of the status of the second ticket that also sent a sentiment and
\* an urgency_score succeeded with no scoring call, after the ticket had been
\* rescored on a new title
C12_Witness ==
    /\ PatchSucceeded
    /\ request.id = 2
    /\ Has(request.data.sentiment)
    /\ Has(request.data.urgency_score)
    /\ scoreCalls = <<>>
    /\ tickets[2].status = "closed"
    /\ tickets[2].title = <<"b">>
    /\ tickets[2].sentiment = "calm"
    /\ tickets[1].sentiment = "frustrated"

-----------------------------------------------------------------------------
(* Two PATCH requests in flight at once: each reads its ticket (get_object),
   then validates, scores where the body carries text, and saves the
   instance it read *)

\* a request that has read its ticket: the requests in flight when it read,
\* the instance it read, and the row it saved once it is done
InFlight(id, data, svc, read, during) ==
    [pc |-> "read", id |-> id, data |-> data, svc |-> svc, read |-> read,
     during |-> during, saved |-> read]

Reading == {r \in DOMAIN inflight : inflight[r].pc = "read"}

\* get_object of the PATCH request r
GetObject(r, data) ==
    /\ r \notin DOMAIN inflight
    /\ \E id \in Ids, svc \in SignalSvcs :
          inflight' = [s \in DOMAIN inflight \cup {r} |->
                          IF s = r
                          THEN InFlight(id, data, svc, tickets[id], Reading)
                          ELSE inflight[s]]
    /\ UNCHANGED <<tickets, clock, env, request, response, scoreCalls, attempts,
                   lastScore>>

\* perform_update of the PATCH request r, on the instance it read
SaveInstance(r) ==
    /\ r \in Reading
    /\ \E out \in {partial_update(inflight[r].read, inflight[r].data, inflight[r].svc)} :
          /\ Answer(Request("patch", inflight[r].id, inflight[r].data, inflight[r].svc),
                    out, clock)
          /\ inflight' = [inflight EXCEPT ![r].pc = "done",
                                          ![r].saved = out.response.data]

OverlapCreate ==
    \E svc \in SignalSvcs :
        /\ Create(Body(Some(<<"a">>), Some(<<"x">>), Some("general"), Some("low"), Absent),
                  svc, clock + 1)
        /\ Len(tickets') <= MaxTickets

StatusPatchRead ==
    \E status \in {"in_progress", "resolved"} :
        GetObject("first", Body(Absent, Absent, Absent, Absent, Some(status)))

StatusPatchSave == SaveInstance("first")

DescriptionPatchRead ==
    \E description \in {<<"y">>, <<"z">>} :
        GetObject("second", Body(Absent, Some(description), Absent, Absent, Absent))

DescriptionPatchSave == SaveInstance("second")

NextOverlap ==
    \/ OverlapCreate
    \/ StatusPatchRead
    \/ StatusPatchSave
    \/ DescriptionPatchRead
    \/ DescriptionPatchSave

SpecOverlap == Init /\ [][NextOverlap]_vars

\* the two PATCH requests were to the same ticket, each was in flight while
\* the other was, and both have completed
BothCompleted ==
    /\ DOMAIN inflight = {"first", "second"}
    /\ inflight["first"].pc = "done"
    /\ inflight["second"].pc = "done"
    /\ inflight["first"].id = inflight["second"].id
    /\ \/ "first" \in inflight["second"].during
       \/ "second" \in inflight["first"].during

\* C13 as stated: once two overlapping PATCH requests to the same ticket
\* have both completed, one setting status and the other setting
\* description, the stored ticket has the status of the first and the
\* description, sentiment and urgency_score of the second.
C13_OverlappingPatchesBothTakeEffect ==
    BothCompleted =>
        LET stored == tickets[inflight["first"].id]
        IN  /\ stored.status = The(inflight["first"].data.status)
            /\ stored.description = The(inflight["second"].data.description)
            /\ stored.sentiment = inflight["second"].saved.sentiment
            /\ stored.urgency_score = inflight["second"].saved.urgency_score

-----------------------------------------------------------------------------
(* Every request of the API, DELETE included *)

\* the mixins of TicketViewSet, by the handlers they bring
mixins == {"create", "list", "update", "partial_update"}

http_method_names == {"get", "post", "patch", "head", "options"}

\* a dispatch that lets every method through to every handler
MethodAllowed_Any(method, handler) == TRUE

\* APIView.dispatch: a method is handled when it is among http_method_names
\* and the view has the handler the router maps it to
MethodAllowed(method, handler) ==
    method \in http_method_names /\ handler \in mixins

\* DELETE /tickets/{id}/
destroy(id) ==
    LET Other(t) == t.id # id
    IN  IF ~MethodAllowed("delete", "destroy")
        THEN Rejected(HTTP_405_METHOD_NOT_ALLOWED, "MethodNotAllowed")
        ELSE IF id \notin Ids
        THEN Rejected(HTTP_404_NOT_FOUND, "NotFound")
        ELSE Outcome(Response(HTTP_204_NO_CONTENT, "", <<>>),
                     SelectSeq(tickets, Other), <<>>, 0)

Delete(id) ==
    \E out \in {destroy(id)} : Handle(Request("delete", id, NoData, NoSvc), out, clock)

LifecycleSvcs(payload) == {Svc(0, "error", JOther("null")), Svc(0, "json", payload)}

LifecycleCreate ==
    \E data \in CreateBodies, svc \in ScoreSvcs :
        Create(data, svc, clock + 1) /\ Len(tickets') <= MaxTickets

LifecyclePatch ==
    \E id \in 1..(Len(tickets) + 1), data \in PatchBodies, svc \in ScoreSvcs :
        Patch(id, data, svc)

LifecycleDelete == \E id \in 1..(Len(tickets) + 1) : Delete(id)

LifecycleList ==
    \E params \in {Query(Absent, Absent, Absent, Absent),
                   Query(Some("general"), Absent, Absent, Some(<<"a">>))} :
        List(params)

LifecycleStats == Stats

LifecycleClassify ==
    \E description \in {Some(<<"x">>), Some(<<" ">>), Absent},
       svc \in LifecycleSvcs(ClassifyPayload(JStr("billing"), JStr("high"))) :
        Classify(DescriptionBody(description), svc)

LifecycleSuggestTitle ==
    \E description \in {Some(<<"x">>), Some(<<" ">>), Absent},
       svc \in LifecycleSvcs(TitlePayload(JText(<<"T">>))) :
        SuggestTitle(DescriptionBody(description), svc)

NextLifecycle ==
    \/ LifecycleCreate
    \/ LifecyclePatch
    \/ LifecycleDelete
    \/ LifecycleList
    \/ LifecycleStats
    \/ LifecycleClassify
    \/ LifecycleSuggestTitle

SpecLifecycle == Init /\ [][NextLifecycle]_vars

\* a body that is to be rejected: a blank title or description, a title of
\* more than 200 characters, or a category, priority or status that is not
\* an enumerated value
BodyRejected(data) ==
    \/ Has(data.title) /\ ~NonBlank(The(data.title))
    \/ Has(data.title) /\ Len(Strip(The(data.title), Whitespace)) > TITLE_MAX_LENGTH
    \/ Has(data.description) /\ ~NonBlank(The(data.description))
    \/ Has(data.category) /\ The(data.category) \notin Category
    \/ Has(data.priority) /\ The(data.priority) \notin Priority
    \/ Has(data.status) /\ The(data.status) \notin Status

\* the step is a create or a PATCH that was refused
Refused ==
    /\ request'.op \in {"create", "patch"}
    /\ \/ BodyRejected(request'.data)
       \/ response'.status \notin {HTTP_200_OK, HTTP_201_CREATED}

\* C14: no request removes a ticket; a stored ticket keeps its id and its
\* created_at; a ticket is added only by a create answered with 201, one at
\* a time; and the classify, suggest-title, stats and list requests and
\* every refused create or PATCH leave the table as it was.
C14_InsertAndUpdateOnly ==
    [][/\ Len(tickets') >= Len(tickets)
       /\ \A i \in Ids : /\ tickets'[i].id = tickets[i].id
                         /\ tickets'[i].created_at = tickets[i].created_at
       /\ Len(tickets') > Len(tickets)
             => /\ request'.op = "create"
                /\ response'.status = HTTP_201_CREATED
                /\ Len(tickets') = Len(tickets) + 1
       /\ request'.op \in {"classify", "suggest-title", "stats", "list", "delete"}
             => tickets' = tickets
       /\ Refused => tickets' = tickets]_vars

\* a DELETE of a stored ticket was answered 405 and the ticket, patched
\* before, is still stored
C14_Witness ==
    /\ request.op = "delete"
    /\ request.id = 1
    /\ response.status = HTTP_405_METHOD_NOT_ALLOWED
    /\ Len(tickets) = 1
    /\ tickets[1].id = 1
    /\ tickets[1].status = "resolved"

====
